---- MODULE Spec2Model ----
(***************************************************************************)
(* Model of the dynamic-module lifecycle of the mi library:                *)
(*   dl::dynamic_library  (src/src/dynamic_library.cpp)                    *)
(*   dynamic_module       (src/src/dynamic_module.cpp)                     *)
(*   dynamic_loader       (src/src/dynamic_loader.cpp)                     *)
(*   base_loader / unique_container / container / filter::iterate          *)
(*                                                                         *)
(* Every module object is a node.  Node ROOT is a dynamic_loader built at  *)
(* start-up; further nodes are created by attach_module.  Each public      *)
(* member function is one action that runs the whole call, including the   *)
(* calls it makes on children.  The operating system and the library       *)
(* files are the environment: what the permission check, dlopen, dlclose,  *)
(* dlsym and the exported hooks do during one call is drawn per action.    *)
(***************************************************************************)
EXTENDS Integers, Sequences, FiniteSets, TLC

(* ------------------------------ bounds -------------------------------- *)

\* number of module objects that may exist (the root loader included)
MaxNodes == 4

\* largest size() of one loader's collection
MaxChildren == 3

\* number of null slots pushed into collections
MaxNulls == 1

\* number of dynamic_loader objects (the root loader included)
MaxLoaders == 2

\* number of objects constructed with a path that is no library path
MaxBadPaths == 1

\* number of nodes at which the platform or the library's code fails
\* during one operation
MaxFaults == 1

\* number of anchor objects
MaxAnchors == 2

\* number of objects an anchor can refer to
MaxObjects == 2

\* number of times a lifecycle hook of one module is counted
MaxRuns == 6

(* ----------------------------- constants ------------------------------ *)

\* the lifecycle hooks dynamic_module looks up
Hooks == { "on_module_load", "on_module_unload" }

\* the name a library declares in its module_info
DeclaredName == "declared-name"

\* the anchor objects of the program
Anchors == 1 .. MaxAnchors

\* the addresses of the objects anchors refer to
Objects == 1 .. MaxObjects

Nodes == 0 .. (MaxNodes - 1)

\* the loader constructed by the host program
ROOT == 0

\* a null std::unique_ptr in a collection slot
NULL == -1

\* a null os::dynamic_library_handle_t / dynamic_library_func_t
nullptr == 0

\* os::DYNAMIC_LIBRARY_EXTENSION (MI_OS_LINUX)
DYNAMIC_LIBRARY_EXTENSION == ".so"

\* no exception in flight
NoException == "none"

\* the names looked up in a library
Symbols == { "on_module_load", "on_module_unload", "on_module_info" }

\* what() of the exception sym throws: it carries the symbol
not_loaded(name) ==
    "failed to get symbol, dynamic library is not loaded (symbol: " \o name \o ")"

\* what() of the exception call throws: it carries the function
no_function(name) ==
    "no function from dynamic library (function: " \o name \o ")"

\* what() of the dynamic_library_exception thrown by the library layer
DynamicLibraryErrors ==
    { "no read access", "invalid extension", "already loaded", "dlerror" }
      \cup { not_loaded(name) : name \in Symbols }
      \cup { no_function(name) : name \in Symbols }

\* a std::exception thrown by code inside a loaded library
HookException == "hook exception"

\* the size_type values given as an index: every slot and two past the end
Indices == 0 .. (MaxChildren + 1)

\* what() of the range_error thrown by container::at: it carries the index
range_error(index) ==
    "index is out of range (index: " \o ToString(index) \o ")"

\* what() of the null_pointer_exception thrown by unique_container::get
null_pointer_exception(index) ==
    "no value assigned (index: " \o ToString(index) \o ")"

RangeErrors == { range_error(index) : index \in Indices }

NullPointerExceptions == { null_pointer_exception(index) : index \in Indices }

\* a std::exception thrown by the constructor of an element
ConstructorException == "constructor exception"

\* what() of the exception anchor::ref throws
anchor_exception == "reference is not engaged"

\* what a catch (const std::exception &) clause catches
StdExceptions ==
    DynamicLibraryErrors \cup RangeErrors \cup NullPointerExceptions
      \cup {HookException, ConstructorException, anchor_exception}

\* an object thrown by code inside a loaded library whose type does not
\* derive from std::exception
ForeignException == "foreign exception"

\* an exception met the boundary of a noexcept function: std::terminate
Terminated == "std::terminate"

\* the paths given to constructors: directory components, stem, extension
Paths ==
    { [dirs |-> <<"opt", "app", "modules">>, stem |-> "foo", ext |-> ".so"],
      [dirs |-> <<"opt", "app", "modules">>, stem |-> "foo", ext |-> ".txt"] }

\* a path of another deployment, given to the constructor of a library
OtherPaths ==
    { [dirs |-> <<"srv", "plugins">>, stem |-> "bar", ext |-> ".so"] }

\* std::filesystem::path::extension
extension(p) == p.ext

\* std::filesystem::path::filename
filename(p) == p.stem \o p.ext

\* std::filesystem::path::parent_path of a path given as its components:
\* the path without its last component
parent_path(components) ==
    IF components = <<>>
    THEN components
    ELSE SubSeq(components, 1, Len(components) - 1)

\* the concrete classes
Classes == { "dynamic_library", "dynamic_module", "dynamic_loader" }

\* the classes attach_module can construct
Kinds == { "dynamic_module", "dynamic_loader" }

\* a non-null value left in memory that was never initialised
Garbage == 99

\* the FunctionType arguments given to call and try_call
FunctionTypes == { "void(dynamic_module &)", "int()", "const module_info &()" }

\* the FunctionType arguments for which try_call's return_type{} is well
\* formed
ValueTypes == { "void(dynamic_module &)", "int()" }

\* std::is_void_v<std::invoke_result_t<FunctionType>>
is_void_v(FunctionType) == FunctionType = "void(dynamic_module &)"

\* return_type{}: a value-initialised result; also stands for no result
DefaultValue == 0

\* what a non-void function of a library returns
FunctionResult == 7

VARIABLES
    alive,      \* the module objects that exist
    kind,       \* dynamic type of each object
    m_path,     \* dynamic_library::m_path
    m_handle,   \* dynamic_library::m_handle
    m_values,   \* container::m_values of each loader: sequence of node or NULL
    m_ptr,      \* anchor::m_ptr of each anchor
    runs,       \* how often each hook has been invoked, where that is counted
    pre,        \* the objects as they were when the last public call began
    op,         \* the last public call: [name, call, id, arg]
    thrown,     \* the exception that call let escape, or NoException
    log,        \* what that call did, in order
    ret         \* what that call returned

vars ==
    <<alive, kind, m_path, m_handle, m_values, m_ptr, runs, pre, op, thrown,
      log, ret>>

(* --------------------------- event log -------------------------------- *)

Ev(e, n) == [ev |-> e, id |-> n, exception |-> NoException]

Emit(S, e, n) == [S EXCEPT !.log = Append(@, Ev(e, n))]

Throw(S, what) == [S EXCEPT !.thrown = what]

\* the mutable part of the program state, threaded through one call
Here == [alive |-> alive, m_handle |-> m_handle, m_values |-> m_values,
         thrown |-> NoException, log |-> <<>>]

(* --------------------------- environment ------------------------------ *)

\* per node: everything succeeds, the file is unreadable, the platform
\* loader / unloader reports failure, or the code inside the library throws
\* a std::exception or an object of another type
FaultKinds == { "ok", "noread", "osfail", "throws", "throws_foreign" }

\* what the constructor of a new element does: returns, or throws
CtorKinds == { "ok", "throws" }

\* what the library files export: the lifecycle hooks, or nothing
HookKinds == { "exported", "absent" }

RECURSIVE Subtree(_)
\* the objects reachable from n through collections
Subtree(n) ==
    {n} \cup UNION { Subtree(m_values[n][i]) :
                       i \in { j \in DOMAIN m_values[n] : m_values[n][j] # NULL } }

\* at most MaxFaults objects reached by the call fail, each in one of the
\* given ways
FaultEnvs(n, kinds) ==
    UNION { { [x \in Nodes |-> IF x \in F THEN g[x] ELSE "ok"] :
                g \in [F -> kinds \ {"ok"}] } :
            F \in { G \in SUBSET Subtree(n) : Cardinality(G) <= MaxFaults } }

\* the libraries of one deployment are built alike
HookEnvs(n) == { [x \in Nodes |-> k] : k \in HookKinds }

Envs(n, kinds) ==
    { [fault |-> f, hook |-> h] : f \in FaultEnvs(n, kinds), h \in HookEnvs(n) }

\* load() asks is_readable, dlopen and the hook
LoadEnvs(n) == Envs(n, FaultKinds)

\* unload() asks the hook and dlclose
UnloadEnvs(n) == Envs(n, {"ok", "osfail", "throws", "throws_foreign"})

\* a destructor asks dlclose
DtorEnvs(n) == Envs(n, {"ok", "osfail"})

\* sym, call and try_call ask dlsym and the function found
CallEnvs(n) == Envs(n, {"ok", "throws", "throws_foreign"})

\* fs::is_readable
is_readable(n, env) == env.fault[n] # "noread"

\* dlopen: the handle of library n, or null
dlopen(n, env) == IF env.fault[n] = "osfail" THEN nullptr ELSE n + 1

\* dlclose: zero on success
dlclose(n, env) == IF env.fault[n] = "osfail" THEN 1 ELSE 0

\* dlsym: the address of the symbol, or null
dlsym(n, name, env) == IF env.hook[n] = "absent" THEN nullptr ELSE 1

(* ------------------------- dynamic_library ---------------------------- *)

is_unloaded(n, S) == S.m_handle[n] = nullptr

is_loaded(n, S) == ~is_unloaded(n, S)

\* mutant: the state is not looked at before the platform loader is called
dynamic_library_load_no_state_check(n, S, env) ==
    IF ~is_readable(n, env)
    THEN Throw(S, "no read access")
    ELSE IF extension(m_path[n]) # DYNAMIC_LIBRARY_EXTENSION
    THEN Throw(S, "invalid extension")
    ELSE LET h  == dlopen(n, env)
             S1 == Emit([S EXCEPT !.m_handle[n] = h],
                        IF h = nullptr THEN "dlopen_null" ELSE "dlopen", n)
         IN  IF is_unloaded(n, S1) THEN Throw(S1, "dlerror") ELSE S1

\* mutant: the extension of the path is not looked at
dynamic_library_load_no_extension_check(n, S, env) ==
    IF ~is_readable(n, env)
    THEN Throw(S, "no read access")
    ELSE IF is_loaded(n, S)
    THEN Throw(S, "already loaded")
    ELSE LET h  == dlopen(n, env)
             S1 == Emit([S EXCEPT !.m_handle[n] = h],
                        IF h = nullptr THEN "dlopen_null" ELSE "dlopen", n)
         IN  IF is_unloaded(n, S1) THEN Throw(S1, "dlerror") ELSE S1

\* mutant: what the platform loader handed back is not looked at
dynamic_library_load_no_result_check(n, S, env) ==
    IF ~is_readable(n, env)
    THEN Throw(S, "no read access")
    ELSE IF extension(m_path[n]) # DYNAMIC_LIBRARY_EXTENSION
    THEN Throw(S, "invalid extension")
    ELSE IF is_loaded(n, S)
    THEN Throw(S, "already loaded")
    ELSE LET h == dlopen(n, env)
         IN  Emit([S EXCEPT !.m_handle[n] = h],
                  IF h = nullptr THEN "dlopen_null" ELSE "dlopen", n)

dynamic_library_load(n, S, env) ==
    IF ~is_readable(n, env)
    THEN Throw(S, "no read access")
    ELSE IF extension(m_path[n]) # DYNAMIC_LIBRARY_EXTENSION
    THEN Throw(S, "invalid extension")
    ELSE IF is_loaded(n, S)
    THEN Throw(S, "already loaded")
    ELSE LET h  == dlopen(n, env)
             S1 == Emit([S EXCEPT !.m_handle[n] = h],
                        IF h = nullptr THEN "dlopen_null" ELSE "dlopen", n)
         IN  IF is_unloaded(n, S1) THEN Throw(S1, "dlerror") ELSE S1

\* mutant: the handle is cleared before the platform unloader has answered
dynamic_library_unload_clear_first(n, S, env) ==
    IF is_loaded(n, S)
    THEN IF dlclose(n, env) = 0
         THEN Emit([S EXCEPT !.m_handle[n] = nullptr], "dlclose", n)
         ELSE Throw(Emit([S EXCEPT !.m_handle[n] = nullptr], "dlclose_err", n),
                    "dlerror")
    ELSE S

\* mutant: the platform unloader is called whatever the state
dynamic_library_unload_no_state_check(n, S, env) ==
    LET S1 == IF dlclose(n, env) = 0
              THEN Emit([S EXCEPT !.m_handle[n] = nullptr], "dlclose", n)
              ELSE Emit(S, "dlclose_err", n)
    IN  IF is_loaded(n, S1) THEN Throw(S1, "dlerror") ELSE S1

\* mutant: the result of dlclose is read the way FreeLibrary's is
dynamic_library_unload_inverted_result(n, S, env) ==
    LET S1 == IF is_loaded(n, S)
              THEN IF dlclose(n, env) # 0
                   THEN Emit([S EXCEPT !.m_handle[n] = nullptr], "dlclose_err", n)
                   ELSE Emit(S, "dlclose", n)
              ELSE S
    IN  IF is_loaded(n, S1) THEN Throw(S1, "dlerror") ELSE S1

dynamic_library_unload(n, S, env) ==
    LET S1 == IF is_loaded(n, S)
              THEN IF dlclose(n, env) = 0
                   THEN Emit([S EXCEPT !.m_handle[n] = nullptr], "dlclose", n)
                   ELSE Emit(S, "dlclose_err", n)
              ELSE S
    IN  IF is_loaded(n, S1) THEN Throw(S1, "dlerror") ELSE S1

\* dynamic_library::sym_unsafe: [st, ret]
sym_unsafe(n, name, S, env) ==
    [st |-> Emit(S, "dlsym", n), ret |-> dlsym(n, name, env)]

\* mutant: the symbol is looked up whatever the state
sym_no_state_check(n, name, S, env) == sym_unsafe(n, name, S, env)

\* dynamic_library::sym: [st, ret]
sym(n, name, S, env) ==
    IF is_unloaded(n, S)
    THEN [st |-> Throw(S, not_loaded(name)), ret |-> nullptr]
    ELSE sym_unsafe(n, name, S, env)

\* std::invoke of a function found in library n: [st, ret]
invoke(n, FunctionType, S, env) ==
    CASE env.fault[n] = "throws" ->
             [st |-> Throw(S, HookException), ret |-> DefaultValue]
      [] env.fault[n] = "throws_foreign" ->
             [st |-> Throw(S, ForeignException), ret |-> DefaultValue]
      [] OTHER ->
             [st |-> S,
              ret |-> IF is_void_v(FunctionType) THEN DefaultValue
                                                 ELSE FunctionResult]

\* dynamic_library::call<FunctionType>: [st, ret]
call(n, FunctionType, name, S, env) ==
    LET r == sym(n, name, S, env)
    IN  IF r.st.thrown # NoException
        THEN [st |-> r.st, ret |-> DefaultValue]
        ELSE IF r.ret # nullptr
        THEN invoke(n, FunctionType, Emit(r.st, name, n), env)
        ELSE [st |-> Throw(r.st, no_function(name)), ret |-> DefaultValue]

\* the exception_handler_t given to try_call is called with the exception
handler(n, callback, S) ==
    IF callback
    THEN [S EXCEPT !.log = Append(@, [ev |-> "handler", id |-> n,
                                      exception |-> S.thrown])]
    ELSE S

\* mutant: the exception is handed to the handler and thrown again
try_call_rethrowing(n, FunctionType, name, callback, S, env) ==
    LET r == call(n, FunctionType, name, S, env)
    IN  IF r.st.thrown = NoException
        THEN r
        ELSE IF r.st.thrown \in StdExceptions
        THEN [st |-> handler(n, callback, r.st), ret |-> DefaultValue]
        ELSE [st |-> Throw(r.st, Terminated), ret |-> DefaultValue]

\* dynamic_library::try_call<FunctionType>: [st, ret].  The catch clause
\* takes a std::exception; anything else meets noexcept
try_call(n, FunctionType, name, callback, S, env) ==
    LET r == call(n, FunctionType, name, S, env)
    IN  IF r.st.thrown = NoException
        THEN r
        ELSE IF r.st.thrown \in StdExceptions
        THEN [st |-> Throw(handler(n, callback, r.st), NoException),
              ret |-> DefaultValue]
        ELSE [st |-> Throw(r.st, Terminated), ret |-> DefaultValue]

\* mutant: m_handle is left out of the member initialisers
dynamic_library_ctor_no_handle(n, S) ==
    [S EXCEPT !.alive = @ \cup {n}]

\* dynamic_library::dynamic_library: the member initialisers
dynamic_library_ctor(n, S) ==
    [S EXCEPT !.alive = @ \cup {n}, !.m_handle[n] = nullptr]

\* exception::invoke_noexcept: a std::exception does not leave the call,
\* anything else meets noexcept
invoke_noexcept(S) ==
    IF S.thrown \in StdExceptions \cup {NoException}
    THEN Throw(S, NoException)
    ELSE Throw(S, Terminated)

\* mutant: unload() is called in the destructor without invoke_noexcept
dynamic_library_dtor_propagating(n, S, env) ==
    LET S1 == dynamic_library_unload(n, S, env)
    IN  [S1 EXCEPT !.alive = @ \ {n}, !.m_handle[n] = nullptr]

\* dynamic_library::~dynamic_library, after which the object is gone
dynamic_library_dtor(n, S, env) ==
    LET S1 == invoke_noexcept(dynamic_library_unload(n, S, env))
    IN  [S1 EXCEPT !.alive = @ \ {n}, !.m_handle[n] = nullptr]

(* -------------------------- dynamic_module ---------------------------- *)

\* mutant: the hook is tried before the library is loaded
dynamic_module_load_hook_first(n, S, env) ==
    LET S1 == try_call(n, "void(dynamic_module &)", "on_module_load", FALSE,
                       S, env).st
    IN  IF S1.thrown # NoException
        THEN S1
        ELSE dynamic_library_load(n, S1, env)

dynamic_module_load(n, S, env) ==
    LET S1 == dynamic_library_load(n, S, env)
    IN  IF S1.thrown # NoException
        THEN S1
        ELSE try_call(n, "void(dynamic_module &)", "on_module_load", FALSE,
                      S1, env).st

\* mutant: the library is unloaded before the hook is tried
dynamic_module_unload_library_first(n, S, env) ==
    LET S1 == dynamic_library_unload(n, S, env)
    IN  IF S1.thrown # NoException
        THEN S1
        ELSE try_call(n, "void(dynamic_module &)", "on_module_unload", FALSE,
                      S1, env).st

dynamic_module_unload(n, S, env) ==
    LET S1 == try_call(n, "void(dynamic_module &)", "on_module_unload", FALSE,
                       S, env).st
    IN  IF S1.thrown # NoException
        THEN S1
        ELSE dynamic_library_unload(n, S1, env)

\* mutant: on_module_info is treated like the optional hooks
dynamic_module_info_optional(n, S, env) ==
    try_call(n, "const module_info &()", "on_module_info", FALSE, S, env)

\* dynamic_module::info: [st, ret]
dynamic_module_info(n, S, env) ==
    call(n, "const module_info &()", "on_module_info", S, env)

\* boost::typeindex::type_id_runtime(*this).pretty_name()
pretty_name(n) == "mi::" \o kind[n]

\* extension::classname
extension_classname(n) == pretty_name(n)

RECURSIVE interpolate_stream(_, _)
\* format::interpolate_stream: the format, given as its pieces with "{}" a
\* piece of its own, is written up to the first placeholder, then the
\* first value, then the rest with the values that remain
interpolate_stream(format, args) ==
    IF format = <<>>
    THEN ""
    ELSE IF args = <<>>
    THEN Head(format) \o interpolate_stream(Tail(format), args)
    ELSE IF Head(format) = "{}"
    THEN Head(args) \o interpolate_stream(Tail(format), Tail(args))
    ELSE Head(format) \o interpolate_stream(Tail(format), args)

\* format::interpolate_string
interpolate_string(format, args) == interpolate_stream(format, args)

\* module_info::name of what on_module_info returned
module_info_name(info) == DeclaredName

\* mutant: the name of the type is returned without asking the library
dynamic_module_classname_type_only(n, S, env) ==
    [st |-> S, ret |-> extension_classname(n)]

\* dynamic_module::classname: [st, ret]
dynamic_module_classname(n, S, env) ==
    LET r == dynamic_module_info(n, S, env)
    IN  IF r.st.thrown # NoException
        THEN [st |-> r.st, ret |-> DefaultValue]
        ELSE [st |-> r.st,
              ret |-> interpolate_string(<<"{}", "::", "{}">>,
                                         <<extension_classname(n),
                                           module_info_name(r.ret)>>)]

\* mutant: the destructor goes through unload(), hook included
dynamic_module_dtor_unloading(n, S, env) ==
    LET S1 == invoke_noexcept(dynamic_module_unload(n, S, env))
    IN  [S1 EXCEPT !.alive = @ \ {n}, !.m_handle[n] = nullptr]

\* the implicit ~dynamic_module: its bases go, ~dynamic_library among them
dynamic_module_dtor(n, S, env) == dynamic_library_dtor(n, S, env)

\* dynamic_library::path as its components, the file name last
library_path(n) == Append(m_path[n].dirs, filename(m_path[n]))

\* dynamic_module::root_path
root_path(n) == parent_path(library_path(n))

\* mutant: the configuration directory is looked for next to the module
config_dir_in_root_path(n) == Append(root_path(n), "config")

\* dynamic_module::config_dir
config_dir(n) == Append(parent_path(root_path(n)), "config")

(* ----------------------- container / unique_container ----------------- *)

\* container::size
size(n, S) == Len(S.m_values[n])

\* container::exists
exists(n, index, S) == index < size(n, S)

\* container::at_unsafe: the slot at a zero-based index
at_unsafe(n, index, S) == S.m_values[n][index + 1]

\* mutant: the last index accepted is size()
at_off_by_one(n, index, S) ==
    IF index <= size(n, S)
    THEN [st |-> S,
          ret |-> IF index < size(n, S) THEN at_unsafe(n, index, S) ELSE Garbage]
    ELSE [st |-> Throw(S, range_error(index)), ret |-> NULL]

\* container::at: [st, ret]
at(n, index, S) ==
    IF exists(n, index, S)
    THEN [st |-> S, ret |-> at_unsafe(n, index, S)]
    ELSE [st |-> Throw(S, range_error(index)), ret |-> NULL]

\* container::push_back
push_back(n, value, S) == [S EXCEPT !.m_values[n] = Append(@, value)]

\* unique_container::get_unsafe: [st, ret], the element the slot points to
get_unsafe(n, index, S) == at(n, index, S)

\* unique_container::is_value_null: [st, ret]
is_value_null(n, index, S) ==
    LET r == at(n, index, S)
    IN  [st |-> r.st, ret |-> r.st.thrown = NoException /\ r.ret = NULL]

\* unique_container::throw_if_value_equal_null
throw_if_value_equal_null(n, index, S) ==
    LET r == is_value_null(n, index, S)
    IN  IF r.st.thrown = NoException /\ r.ret
        THEN Throw(r.st, null_pointer_exception(index))
        ELSE r.st

\* mutant: the slot is dereferenced without the null test
get_no_null_check(n, index, S) == get_unsafe(n, index, S)

\* unique_container::get: [st, ret]
get(n, index, S) ==
    LET S1 == throw_if_value_equal_null(n, index, S)
    IN  IF S1.thrown # NoException
        THEN [st |-> S1, ret |-> NULL]
        ELSE get_unsafe(n, index, S1)

\* std::make_unique<CustomType>: object c is built in memory holding
\* `memory`, unless its constructor throws
construct(c, ctor, memory, S) ==
    IF ctor = "throws"
    THEN Throw(S, ConstructorException)
    ELSE dynamic_library_ctor(c, [S EXCEPT !.m_handle[c] = memory])

\* mutant: the new element is put in front of the others
make_unique_at_front(n, c, ctor, memory, S) ==
    LET index == size(n, S)
        S1 == construct(c, ctor, memory, S)
    IN  IF S1.thrown # NoException
        THEN [st |-> S1, ret |-> 0]
        ELSE [st |-> [S1 EXCEPT !.m_values[n] = <<c>> \o @], ret |-> index]

\* mutant: the slot is appended before the element is constructed
make_unique_slot_first(n, c, ctor, memory, S) ==
    LET index == size(n, S)
        S1 == construct(c, ctor, memory, push_back(n, NULL, S))
    IN  IF S1.thrown # NoException
        THEN [st |-> S1, ret |-> 0]
        ELSE [st |-> [S1 EXCEPT !.m_values[n][index + 1] = c], ret |-> index]

\* unique_container::make_unique<CustomType>: [st, ret], ret the index
make_unique(n, c, ctor, memory, S) ==
    LET index == size(n, S)
        S1 == construct(c, ctor, memory, S)
    IN  IF S1.thrown # NoException
        THEN [st |-> S1, ret |-> 0]
        ELSE [st |-> push_back(n, c, S1), ret |-> index]

\* unique_container::emplace_unique<CustomType>: [st, ret], ret the element
emplace_unique(n, c, ctor, memory, S) ==
    LET r == make_unique(n, c, ctor, memory, S)
    IN  IF r.st.thrown # NoException
        THEN [st |-> r.st, ret |-> NULL]
        ELSE get_unsafe(n, r.ret, r.st)

\* dynamic_loader::attach_module<CustomType>: [st, ret]
attach_module(n, c, ctor, memory, S) == emplace_unique(n, c, ctor, memory, S)

(* ------------------------------- anchor ------------------------------- *)

\* anchor::ptr, P the m_ptr of every anchor
ptr(a, P) == P[a]

\* anchor::empty
empty(a, P) == ptr(a, P) = nullptr

\* anchor::has_reference
has_reference(a, P) == ~empty(a, P)

\* anchor::emplace(pointer)
emplace(a, pointer, P) == [P EXCEPT ![a] = pointer]

\* anchor::reset
anchor_reset(a, P) == emplace(a, nullptr, P)

\* mutant: the pointer is dereferenced without looking at it
ref_unchecked(a, P) == [thrown |-> NoException, ret |-> ptr(a, P)]

\* anchor::ref: [thrown, ret]
ref(a, P) ==
    IF has_reference(a, P)
    THEN [thrown |-> NoException, ret |-> ptr(a, P)]
    ELSE [thrown |-> anchor_exception, ret |-> nullptr]

\* anchor::anchor(pointer): the value of the new object's m_ptr
anchor_ctor(pointer) == pointer

\* anchor::anchor(anchor &other): anchor a is constructed as a copy
anchor_copy_ctor(a, other, P) == [P EXCEPT ![a] = ptr(other, P)]

\* mutant: the source of a move construction keeps its pointer
anchor_move_ctor_keeping_source(a, other, P) == [P EXCEPT ![a] = ptr(other, P)]

\* anchor::anchor(anchor &&other): anchor a is constructed from other
anchor_move_ctor(a, other, P) ==
    anchor_reset(other, [P EXCEPT ![a] = ptr(other, P)])

\* anchor::operator=(anchor &&other)
anchor_move_assign(a, other, P) ==
    IF a # other
    THEN anchor_reset(other, emplace(a, ptr(other, P), P))
    ELSE P

\* operator==(const anchor &, const anchor &)
anchor_eq(lhs, rhs, P) == ptr(lhs, P) = ptr(rhs, P)

(* --------------------------- filter / container ----------------------- *)

RECURSIVE load(_, _, _)
RECURSIVE unload(_, _, _)
RECURSIVE destroy(_, _, _)

\* container::begin .. end as slot indices
begin_end(n, S) == [i \in 1 .. Len(S.m_values[n]) |-> i]

\* container::rbegin .. rend as slot indices
rbegin_rend(n, S) ==
    [i \in 1 .. Len(S.m_values[n]) |-> Len(S.m_values[n]) + 1 - i]

\* what a void callback hands back to filter::iterate
Void(S) == [st |-> S, void |-> TRUE, ret |-> FALSE]

\* filter::default_filter
default_filter(n, i, S) == TRUE

\* mutant: a child's failure is caught and the traversal goes on
load_modules_callback_catching(n, i, S, env) ==
    Void(invoke_noexcept(load(S.m_values[n][i], S, env)))

\* the action of dynamic_loader::load_modules on slot i of loader n
load_modules_callback(n, i, S, env) == Void(load(S.m_values[n][i], S, env))

\* mutant: a child is loaded whatever state it is in
load_modules_filter_any_state(n, i, S) == S.m_values[n][i] # NULL

\* the predicate of dynamic_loader::load_modules
load_modules_filter(n, i, S) ==
    S.m_values[n][i] # NULL /\ is_unloaded(S.m_values[n][i], S)

\* the action of dynamic_loader::unload_modules on slot i of loader n
unload_modules_callback(n, i, S, env) == Void(unload(S.m_values[n][i], S, env))

\* the predicate of dynamic_loader::unload_modules
unload_modules_filter(n, i, S) ==
    S.m_values[n][i] # NULL /\ is_loaded(S.m_values[n][i], S)

\* std::unique_ptr::reset on slot i of loader n
reset(n, i, S, env) ==
    IF S.m_values[n][i] = NULL
    THEN S
    ELSE [destroy(S.m_values[n][i], S, env) EXCEPT !.m_values[n][i] = NULL]

\* the action of base_loader::~base_loader on slot i of loader n
base_loader_dtor_callback(n, i, S, env) == Void(reset(n, i, S, env))

\* what a callback of the host program does on each slot: its result is
\* truthy or not; what a filter of the host program answers on each slot
IterateEnvs(callback, filter) ==
    [truthy : IF callback = "search"
              THEN [1 .. MaxChildren -> BOOLEAN]
              ELSE {[i \in 1 .. MaxChildren |-> FALSE]},
     passes : IF filter = "predicate"
              THEN [1 .. MaxChildren -> BOOLEAN]
              ELSE {[i \in 1 .. MaxChildren |-> TRUE]}]

\* a callback of the host program that returns a value
search_callback(n, i, S, env) ==
    [st |-> Emit(S, "callback", i), void |-> FALSE, ret |-> env.truthy[i]]

\* a callback of the host program that returns nothing
visit_callback(n, i, S, env) == Void(Emit(S, "callback", i))

\* a filter of the host program
predicate_filter(n, i, S, env) == env.passes[i]

\* the callback given to filter::iterate, applied to slot i of collection n
Callback(callback, n, i, S, env) ==
    CASE callback = "load_modules" -> load_modules_callback(n, i, S, env)
      [] callback = "unload_modules" -> unload_modules_callback(n, i, S, env)
      [] callback = "base_loader_dtor" -> base_loader_dtor_callback(n, i, S, env)
      [] callback = "search" -> search_callback(n, i, S, env)
      [] callback = "visit" -> visit_callback(n, i, S, env)

\* the filter given to filter::iterate, applied to slot i of collection n
Filter(filter, n, i, S, env) ==
    CASE filter = "load_modules" -> load_modules_filter(n, i, S)
      [] filter = "unload_modules" -> unload_modules_filter(n, i, S)
      [] filter = "default_filter" -> default_filter(n, i, S)
      [] filter = "predicate" -> predicate_filter(n, i, S, env)

\* mutant: a truthy result is remembered and the loop goes on
iterate_after_callback_no_stop(r, slot) ==
    IF r.st.thrown # NoException
    THEN [st |-> r.st, ret |-> 0, stop |-> TRUE]
    ELSE IF ~r.void /\ r.ret
    THEN [st |-> r.st, ret |-> slot, stop |-> FALSE]
    ELSE [st |-> r.st, ret |-> 0, stop |-> FALSE]

\* filter::iterate, after the callback has run on a slot: an exception
\* leaves the loop, a truthy result ends it with that slot, anything else
\* goes on
iterate_after_callback(r, slot) ==
    IF r.st.thrown # NoException
    THEN [st |-> r.st, ret |-> 0, stop |-> TRUE]
    ELSE IF ~r.void /\ r.ret
    THEN [st |-> r.st, ret |-> slot, stop |-> TRUE]
    ELSE [st |-> r.st, ret |-> 0, stop |-> FALSE]

\* filter::iterate, one pass of the for loop
iterate_body(prev, slot, callback, filter, n, env) ==
    IF prev.stop
    THEN prev
    ELSE IF ~Filter(filter, n, slot, prev.st, env)
    THEN prev
    ELSE iterate_after_callback(Callback(callback, n, slot, prev.st, env), slot)

\* filter::iterate over slots of collection n: [st, ret, stop], ret the slot
\* whose callback result was truthy, or 0
iterate(range, callback, filter, n, S, env) ==
    LET step[k \in 0 .. Len(range)] ==
            IF k = 0
            THEN [st |-> S, ret |-> 0, stop |-> FALSE]
            ELSE iterate_body(step[k - 1], range[k], callback, filter, n, env)
    IN  step[Len(range)]

(* --------------------------- dynamic_loader --------------------------- *)

\* mutant: the children are traversed from the last one
dynamic_loader_load_modules_reversed(n, S, env) ==
    iterate(rbegin_rend(n, S), "load_modules", "load_modules", n, S, env).st

dynamic_loader_load_modules(n, S, env) ==
    iterate(begin_end(n, S), "load_modules", "load_modules", n, S, env).st

\* mutant: the children are traversed from the first one
dynamic_loader_unload_modules_forward(n, S, env) ==
    iterate(begin_end(n, S), "unload_modules", "unload_modules", n, S, env).st

dynamic_loader_unload_modules(n, S, env) ==
    iterate(rbegin_rend(n, S), "unload_modules", "unload_modules", n, S, env).st

\* mutant: the children are loaded before the loader's own library
dynamic_loader_load_children_first(n, S, env) ==
    LET S1 == dynamic_loader_load_modules(n, S, env)
    IN  IF S1.thrown # NoException THEN S1
        ELSE dynamic_module_load(n, S1, env)

dynamic_loader_load(n, S, env) ==
    LET S1 == dynamic_module_load(n, S, env)
    IN  IF S1.thrown # NoException THEN S1
        ELSE dynamic_loader_load_modules(n, S1, env)

\* mutant: the loader's own library is unloaded whatever the children did
dynamic_loader_unload_self_always(n, S1, env) ==
    IF S1.thrown # NoException
    THEN Throw(dynamic_module_unload(n, invoke_noexcept(S1), env), S1.thrown)
    ELSE dynamic_module_unload(n, S1, env)

\* dynamic_loader::unload once unload_modules() has come back with S1
dynamic_loader_unload_self(n, S1, env) ==
    IF S1.thrown # NoException THEN S1
    ELSE dynamic_module_unload(n, S1, env)

dynamic_loader_unload(n, S, env) ==
    dynamic_loader_unload_self(n, dynamic_loader_unload_modules(n, S, env), env)

\* mutant: the slots are reset from the first one
base_loader_dtor_forward(n, S, env) ==
    [iterate(begin_end(n, S), "base_loader_dtor", "default_filter", n, S, env).st
       EXCEPT !.m_values[n] = <<>>]

\* base_loader::~base_loader, then the emptied vector goes
base_loader_dtor(n, S, env) ==
    [iterate(rbegin_rend(n, S), "base_loader_dtor", "default_filter", n, S, env).st
       EXCEPT !.m_values[n] = <<>>]

\* mutant: the loader's own library is closed before its children go
dynamic_loader_dtor_self_first(n, S, env) ==
    base_loader_dtor(n, dynamic_module_dtor(n, S, env), env)

\* the implicit ~dynamic_loader: bases go in reverse order of declaration
dynamic_loader_dtor(n, S, env) ==
    dynamic_module_dtor(n, base_loader_dtor(n, S, env), env)

\* virtual dynamic_library::load
load(n, S, env) ==
    CASE kind[n] = "dynamic_loader" -> dynamic_loader_load(n, S, env)
      [] kind[n] = "dynamic_module" -> dynamic_module_load(n, S, env)
      [] OTHER -> dynamic_library_load(n, S, env)

\* virtual dynamic_library::unload
unload(n, S, env) ==
    CASE kind[n] = "dynamic_loader" -> dynamic_loader_unload(n, S, env)
      [] kind[n] = "dynamic_module" -> dynamic_module_unload(n, S, env)
      [] OTHER -> dynamic_library_unload(n, S, env)

\* the virtual destructor: the object's destruction begins
destroy(n, S, env) ==
    CASE kind[n] = "dynamic_loader" ->
             dynamic_loader_dtor(n, Emit(S, "destroy", n), env)
      [] kind[n] = "dynamic_module" ->
             dynamic_module_dtor(n, Emit(S, "destroy", n), env)
      [] OTHER -> dynamic_library_dtor(n, Emit(S, "destroy", n), env)

(* ------------------------------ actions ------------------------------- *)

\* the arguments of a public call
Args(name, FunctionType, callback) ==
    [name |-> name, FunctionType |-> FunctionType, callback |-> callback,
     index |-> 0, other |-> 0]

NoArgs == Args("", "", FALSE)

IndexArg(index) == [NoArgs EXCEPT !.index = index]

\* the anchor or the object given to an operation of an anchor
OtherArg(other) == [NoArgs EXCEPT !.other = other]

\* the outcome of a call becomes the program state; after std::terminate
\* the process and its objects are gone
Effect(name, n, arg, S) ==
    /\ alive' = IF S.thrown = Terminated THEN {} ELSE S.alive
    /\ m_handle' = S.m_handle
    /\ m_values' = S.m_values
    /\ pre' = [alive |-> alive, m_handle |-> m_handle, m_values |-> m_values,
               m_ptr |-> m_ptr, runs |-> runs]
    /\ op' = [name |-> IF S.thrown = Terminated THEN Terminated ELSE name,
              call |-> name, id |-> n, arg |-> arg]
    /\ thrown' = S.thrown
    /\ log' = S.log

\* a call that returns nothing
Commit(name, n, arg, S) ==
    /\ Effect(name, n, arg, S)
    /\ ret' = DefaultValue
    /\ UNCHANGED <<m_ptr, runs>>

\* a call that returns r.ret
Return(name, n, arg, r) ==
    /\ Effect(name, n, arg, r.st)
    /\ ret' = r.ret
    /\ UNCHANGED <<m_ptr, runs>>

\* the host program has constructed one object of a class on a path
Start(classes, paths) ==
    /\ \E k \in classes :
         kind = [n \in Nodes |-> IF n = ROOT THEN k ELSE "none"]
    /\ \E p \in paths : m_path = [n \in Nodes |-> p]
    /\ \E g \in {nullptr, Garbage} :
         LET raw == [alive |-> {}, m_handle |-> [n \in Nodes |-> g],
                     m_values |-> [n \in Nodes |-> <<>>],
                     thrown |-> NoException, log |-> <<>>]
             S == dynamic_library_ctor(ROOT, raw)
         IN  /\ alive = S.alive
             /\ m_handle = [n \in Nodes |-> IF n = ROOT THEN S.m_handle[n]
                                                       ELSE nullptr]
             /\ m_values = S.m_values
    /\ m_ptr = [a \in Anchors |-> anchor_ctor(nullptr)]
    /\ runs = [h \in Hooks |-> 0]
    /\ pre = [alive |-> {}, m_handle |-> [n \in Nodes |-> nullptr],
              m_values |-> m_values, m_ptr |-> m_ptr, runs |-> runs]
    /\ op = [name |-> "construct", call |-> "construct", id |-> ROOT,
             arg |-> NoArgs]
    /\ thrown = NoException
    /\ log = <<>>
    /\ ret = DefaultValue

Init == Start({"dynamic_loader"}, Paths)

\* dynamic_loader::attach_module<k>(path) on loader p: the new object is
\* constructed in fresh memory and appended
Attach(p, k, path, ctor) ==
    /\ p \in alive
    /\ kind[p] = "dynamic_loader"
    /\ Len(m_values[p]) < MaxChildren
    /\ Cardinality(alive) < MaxNodes
    /\ k = "dynamic_loader" =>
         Cardinality({ x \in alive : kind[x] = "dynamic_loader" }) < MaxLoaders
    /\ extension(path) # DYNAMIC_LIBRARY_EXTENSION =>
         Cardinality({ x \in alive :
                         extension(m_path[x]) # DYNAMIC_LIBRARY_EXTENSION }) < MaxBadPaths
    /\ LET c == Cardinality(alive)
       IN  /\ kind' = IF ctor = "throws" THEN kind ELSE [kind EXCEPT ![c] = k]
           /\ m_path' = IF ctor = "throws" THEN m_path
                                           ELSE [m_path EXCEPT ![c] = path]
           /\ \E memory \in {nullptr, Garbage} :
                Return("attach_module", p, NoArgs,
                       attach_module(p, c, ctor, memory, Here))

\* container::push_back(nullptr) on loader p
PushNull(p) ==
    /\ p \in alive
    /\ kind[p] = "dynamic_loader"
    /\ Len(m_values[p]) < MaxChildren
    /\ Cardinality({ <<x, i>> \in Nodes \X (1 .. MaxChildren) :
                       i <= Len(m_values[x]) /\ m_values[x][i] = NULL }) < MaxNulls
    /\ Commit("push_back", p, NoArgs, push_back(p, NULL, Here))
    /\ UNCHANGED <<kind, m_path>>

\* p.at(index)
At(p, index) ==
    /\ p \in alive
    /\ kind[p] = "dynamic_loader"
    /\ Return("at", p, IndexArg(index), at(p, index, Here))
    /\ UNCHANGED <<kind, m_path>>

\* p.get(index)
Get(p, index) ==
    /\ p \in alive
    /\ kind[p] = "dynamic_loader"
    /\ Return("get", p, IndexArg(index), get(p, index, Here))
    /\ UNCHANGED <<kind, m_path>>

\* an operation of anchor a that leaves the module objects alone
AnchorOp(name, a, other, exception, result, P) ==
    /\ Effect(name, a, OtherArg(other), Throw(Here, exception))
    /\ ret' = result
    /\ m_ptr' = P
    /\ UNCHANGED <<kind, m_path, runs>>

\* a.emplace(x), x an object
Emplace(a, x) ==
    AnchorOp("emplace", a, x, NoException, DefaultValue, emplace(a, x, m_ptr))

\* a.reset()
Reset(a) ==
    AnchorOp("reset", a, 0, NoException, DefaultValue, anchor_reset(a, m_ptr))

\* a.ref()
Ref(a) ==
    LET r == ref(a, m_ptr)
    IN  AnchorOp("ref", a, 0, r.thrown, r.ret, m_ptr)

\* the object in a goes and anchor() is constructed in its place
DefaultConstruct(a) ==
    AnchorOp("anchor()", a, 0, NoException, DefaultValue,
             [anchor_reset(a, m_ptr) EXCEPT ![a] = anchor_ctor(nullptr)])

\* the object in a goes and anchor(other) is constructed in its place
CopyConstruct(a, other) ==
    /\ a # other
    /\ AnchorOp("anchor(anchor &)", a, other, NoException, DefaultValue,
                anchor_copy_ctor(a, other, anchor_reset(a, m_ptr)))

\* the object in a goes and anchor(std::move(other)) is constructed in its
\* place
MoveConstruct(a, other) ==
    /\ a # other
    /\ AnchorOp("anchor(anchor &&)", a, other, NoException, DefaultValue,
                anchor_move_ctor(a, other, anchor_reset(a, m_ptr)))

\* a = std::move(other)
MoveAssign(a, other) ==
    AnchorOp("operator=(anchor &&)", a, other, NoException, DefaultValue,
             anchor_move_assign(a, other, m_ptr))

\* a == other
Equals(a, other) ==
    AnchorOp("operator==", a, other, NoException,
             IF anchor_eq(a, other, m_ptr) THEN 1 ELSE 0, m_ptr)

\* the slots of collection p in the order of a traversal
Slots(range, p, S) ==
    IF range = "begin" THEN begin_end(p, S) ELSE rbegin_rend(p, S)

\* filter::iterate(p.begin(), p.end(), callback, filter) or the same over
\* p.rbegin(), p.rend(), called by the host program
Iterate(p, range, callback, filter, env) ==
    /\ p \in alive
    /\ kind[p] = "dynamic_loader"
    /\ Return("iterate", p,
              [range |-> range, callback |-> callback, filter |-> filter,
               env |-> env],
              iterate(Slots(range, p, Here), callback, filter, p, Here, env))
    /\ UNCHANGED <<kind, m_path>>

\* n.classname()
Classname(n) ==
    /\ n \in alive
    /\ kind[n] \in Kinds
    /\ \E env \in CallEnvs(n) :
         Return("classname", n, Args("on_module_info", "const module_info &()", FALSE),
                dynamic_module_classname(n, Here, env))
    /\ UNCHANGED <<kind, m_path>>

\* n.root_path()
RootPath(n) ==
    /\ n \in alive
    /\ kind[n] \in Kinds
    /\ Return("root_path", n, NoArgs, [st |-> Here, ret |-> root_path(n)])
    /\ UNCHANGED <<kind, m_path>>

\* n.config_dir()
ConfigDir(n) ==
    /\ n \in alive
    /\ kind[n] \in Kinds
    /\ Return("config_dir", n, NoArgs, [st |-> Here, ret |-> config_dir(n)])
    /\ UNCHANGED <<kind, m_path>>

\* n.load()
Load(n) ==
    /\ n \in alive
    /\ \E env \in LoadEnvs(n) : Commit("load", n, NoArgs, load(n, Here, env))
    /\ UNCHANGED <<kind, m_path>>

\* n.unload()
Unload(n) ==
    /\ n \in alive
    /\ \E env \in UnloadEnvs(n) : Commit("unload", n, NoArgs, unload(n, Here, env))
    /\ UNCHANGED <<kind, m_path>>

\* the libraries of this deployment export the lifecycle hooks
Exporting(envs) == { env \in envs : \A x \in Nodes : env.hook[x] = "exported" }

\* a call on a module of which the host program counts the hook
\* invocations
Counted(name, n, S) ==
    /\ n \in alive
    /\ kind[n] = "dynamic_module"
    /\ \A h \in Hooks : runs[h] < MaxRuns
    /\ Effect(name, n, NoArgs, S)
    /\ ret' = DefaultValue
    /\ runs' = [h \in Hooks |->
                 runs[h] + Cardinality({ i \in DOMAIN S.log : S.log[i].ev = h })]
    /\ UNCHANGED <<kind, m_path, m_ptr>>

\* n.load() with the hook invocations counted
CountedLoad(n) ==
    \E env \in Exporting(LoadEnvs(n)) : Counted("load", n, load(n, Here, env))

\* n.unload() with the hook invocations counted
CountedUnload(n) ==
    \E env \in Exporting(UnloadEnvs(n)) :
        Counted("unload", n, unload(n, Here, env))

\* n.sym_unsafe(name)
SymUnsafe(n, name) ==
    /\ n \in alive
    /\ \E env \in CallEnvs(n) : Return("sym_unsafe", n, Args(name, "", FALSE), sym_unsafe(n, name, Here, env))
    /\ UNCHANGED <<kind, m_path>>

\* n.sym(name)
Sym(n, name) ==
    /\ n \in alive
    /\ \E env \in CallEnvs(n) : Return("sym", n, Args(name, "", FALSE), sym(n, name, Here, env))
    /\ UNCHANGED <<kind, m_path>>

\* n.call<FunctionType>(name)
Call(n, FunctionType, name) ==
    /\ n \in alive
    /\ \E env \in CallEnvs(n) :
         Return("call", n, Args(name, FunctionType, FALSE),
                call(n, FunctionType, name, Here, env))
    /\ UNCHANGED <<kind, m_path>>

\* n.try_call<FunctionType>(name, callback)
TryCall(n, FunctionType, name, callback) ==
    /\ n \in alive
    /\ \E env \in CallEnvs(n) :
         Return("try_call", n, Args(name, FunctionType, callback),
                try_call(n, FunctionType, name, callback, Here, env))
    /\ UNCHANGED <<kind, m_path>>

\* n.info()
Info(n) ==
    /\ n \in alive
    /\ kind[n] \in Kinds
    /\ \E env \in CallEnvs(n) :
         Return("info", n, NoArgs, dynamic_module_info(n, Here, env))
    /\ UNCHANGED <<kind, m_path>>

\* the host program lets the root object go out of scope
Destroy ==
    /\ ROOT \in alive
    /\ \E env \in DtorEnvs(ROOT) : Commit("destroy", ROOT, NoArgs, destroy(ROOT, Here, env))
    /\ UNCHANGED <<kind, m_path>>

\* a loader whose children are plain modules
Next ==
    \/ \E p \in Nodes, path \in Paths, ctor \in CtorKinds :
         Attach(p, "dynamic_module", path, ctor)
    \/ \E p \in Nodes : PushNull(p)
    \/ \E n \in Nodes : Load(n)
    \/ \E n \in Nodes : Unload(n)
    \/ Destroy

Spec == Init /\ [][Next]_vars

LibraryPaths == { p \in Paths : extension(p) = DYNAMIC_LIBRARY_EXTENSION }

InitTree == Start({"dynamic_loader"}, LibraryPaths)

\* a tree of loaders: a child may itself be a loader
NextTree ==
    \/ \E p \in Nodes, k \in Kinds, path \in LibraryPaths, ctor \in CtorKinds :
         Attach(p, k, path, ctor)
    \/ \E n \in Nodes : Load(n)
    \/ \E n \in Nodes : Unload(n)
    \/ Destroy

SpecTree == InitTree /\ [][NextTree]_vars

\* a tree of loaders on which the host program calls load() and unload()
\* of the root loader only
NextRoot ==
    \/ \E p \in Nodes, k \in Kinds, path \in LibraryPaths, ctor \in CtorKinds :
         Attach(p, k, path, ctor)
    \/ Load(ROOT)
    \/ Unload(ROOT)
    \/ Destroy

SpecRoot == InitTree /\ [][NextRoot]_vars

InitLibrary == Start({"dynamic_library", "dynamic_module"}, Paths \cup OtherPaths)

\* one library object and every member function it has
NextLibrary ==
    \/ Load(ROOT)
    \/ Unload(ROOT)
    \/ \E name \in Symbols : SymUnsafe(ROOT, name)
    \/ \E name \in Symbols : Sym(ROOT, name)
    \/ \E name \in Symbols, FunctionType \in FunctionTypes :
         Call(ROOT, FunctionType, name)
    \/ \E name \in Symbols, FunctionType \in ValueTypes, callback \in BOOLEAN :
         TryCall(ROOT, FunctionType, name, callback)
    \/ Info(ROOT)
    \/ Classname(ROOT)
    \/ RootPath(ROOT)
    \/ ConfigDir(ROOT)
    \/ Destroy

SpecLibrary == InitLibrary /\ [][NextLibrary]_vars

InitHooks == Start({"dynamic_module"}, LibraryPaths)

\* one module whose library exports the hooks, loaded and unloaded again
\* and again
NextHooks ==
    \/ CountedLoad(ROOT)
    \/ CountedUnload(ROOT)

SpecHooks == InitHooks /\ [][NextHooks]_vars

InitContainer == Start({"dynamic_loader"}, LibraryPaths)

\* one collection: appends of elements and of null slots, and indexed access
NextContainer ==
    \/ \E path \in LibraryPaths, ctor \in CtorKinds :
         Attach(ROOT, "dynamic_module", path, ctor)
    \/ PushNull(ROOT)
    \/ \E index \in Indices : At(ROOT, index)
    \/ \E index \in Indices : Get(ROOT, index)
    \/ \E range \in {"begin", "rbegin"}, callback \in {"search", "visit"},
          filter \in {"predicate", "default_filter"} :
         \E env \in IterateEnvs(callback, filter) :
           Iterate(ROOT, range, callback, filter, env)

SpecContainer == InitContainer /\ [][NextContainer]_vars

InitAnchor == Start({"dynamic_loader"}, LibraryPaths)

\* the anchors of the program: rebinding, dereference, copies, moves and
\* comparisons
NextAnchor ==
    \/ \E a \in Anchors, x \in Objects : Emplace(a, x)
    \/ \E a \in Anchors : Reset(a)
    \/ \E a \in Anchors : Ref(a)
    \/ \E a \in Anchors : DefaultConstruct(a)
    \/ \E a \in Anchors, other \in Anchors : CopyConstruct(a, other)
    \/ \E a \in Anchors, other \in Anchors : MoveConstruct(a, other)
    \/ \E a \in Anchors, other \in Anchors : MoveAssign(a, other)
    \/ \E a \in Anchors, other \in Anchors : Equals(a, other)

SpecAnchor == InitAnchor /\ [][NextAnchor]_vars

TypeOK ==
    /\ alive \subseteq Nodes
    /\ m_ptr \in [Anchors -> Objects \cup {nullptr}]
    /\ runs \in [Hooks -> 0 .. MaxRuns]
    /\ thrown \in {NoException, ForeignException, Terminated} \cup StdExceptions
    /\ IF op.call \in {"root_path", "config_dir"}
       THEN ret \in Seq(STRING)
       ELSE IF op.call = "classname" /\ thrown = NoException
       THEN ret \in STRING
       ELSE ret \in {DefaultValue, FunctionResult, nullptr, 1, NULL} \cup Nodes

(* ------------------------- claims: helpers ---------------------------- *)

Reverse(s) == [i \in 1 .. Len(s) |-> s[Len(s) + 1 - i]]

Range(s) == { s[i] : i \in DOMAIN s }

\* the objects held by a collection, in slot order
NonNull(vals) == SelectSeq(vals, LAMBDA c : c # NULL)

\* the objects on which event e happened, in order
IdsOf(l, e) ==
    LET f == SelectSeq(l, LAMBDA x : x.ev = e)
    IN  [i \in 1 .. Len(f) |-> f[i].id]

\* the objects the last call did anything to
Touched(l) == { l[i].id : i \in DOMAIN l }

\* the children loader n had when the last call began
ChildrenBefore(n) == NonNull(pre.m_values[n])

WasUnloaded(c) == pre.m_handle[c] = nullptr

WasLoaded(c) == pre.m_handle[c] # nullptr

IsUnloaded(c) == m_handle[c] = nullptr

IsLoaded(c) == m_handle[c] # nullptr

LoaderCall(name) == op.name = name /\ kind[op.id] = "dynamic_loader"

(* ------------------------------ claims -------------------------------- *)

C2_UnloadOrder ==
    ( /\ LoaderCall("unload")
      /\ thrown = NoException
      /\ \A c \in {op.id} \cup Range(ChildrenBefore(op.id)) : WasLoaded(c) )
    => IdsOf(log, "dlclose") = Reverse(ChildrenBefore(op.id)) \o <<op.id>>

C2_Witness ==
    /\ LoaderCall("unload")
    /\ thrown = NoException
    /\ Len(ChildrenBefore(op.id)) = 3
    /\ \A c \in {op.id} \cup Range(ChildrenBefore(op.id)) : WasLoaded(c)
    /\ Len(IdsOf(log, "dlclose")) = 4

C4_UnloadFailure ==
    ( /\ LoaderCall("unload")
      /\ \A c \in {op.id} \cup Range(ChildrenBefore(op.id)) : WasLoaded(c)
      /\ \E c \in Range(ChildrenBefore(op.id)) : IsLoaded(c) )
    => LET ch == ChildrenBefore(op.id)
       IN  /\ thrown \in DynamicLibraryErrors
           /\ IsLoaded(op.id)
           /\ op.id \notin Touched(log)
           /\ \E j \in 1 .. Len(ch) :
                /\ \A i \in 1 .. j : IsLoaded(ch[i])
                /\ \A i \in (j + 1) .. Len(ch) : IsUnloaded(ch[i])
                /\ IdsOf(log, "dlclose") = Reverse(SubSeq(ch, j + 1, Len(ch)))
                /\ IdsOf(log, "dlclose_err") = <<ch[j]>>
                /\ \A i \in 1 .. (j - 1) : ch[i] \notin Touched(log)

C4_Witness ==
    /\ LoaderCall("unload")
    /\ thrown \in DynamicLibraryErrors
    /\ Len(ChildrenBefore(op.id)) = 3
    /\ \A c \in {op.id} \cup Range(ChildrenBefore(op.id)) : WasLoaded(c)
    /\ IsLoaded(op.id)
    /\ IsLoaded(ChildrenBefore(op.id)[1])
    /\ IsLoaded(ChildrenBefore(op.id)[2])
    /\ IsUnloaded(ChildrenBefore(op.id)[3])

RECURSIVE SubtreeBefore(_)
\* n and its descendants when the last call began
SubtreeBefore(n) ==
    {n} \cup UNION { SubtreeBefore(c) : c \in Range(ChildrenBefore(n)) }

\* position of object c in a sequence without repetitions
PosIn(s, c) == CHOOSE i \in DOMAIN s : s[i] = c

\* a call during which no platform call fails
Benign(n) == { env \in UnloadEnvs(n) : \A x \in Nodes : env.fault[x] = "ok" }

C6_SkipLoadedAndNull ==
    ( /\ LoaderCall("load")
      /\ WasUnloaded(op.id)
      /\ IsLoaded(op.id) )
    => LET vals == pre.m_values[op.id]
       IN  /\ m_values = pre.m_values
           /\ \A i \in DOMAIN vals :
                (vals[i] # NULL /\ WasLoaded(vals[i]))
                => /\ vals[i] \notin Touched(log)
                   /\ m_handle[vals[i]] = pre.m_handle[vals[i]]
           /\ thrown = NoException
                => \A c \in Range(NonNull(vals)) : IsLoaded(c)
           /\ thrown # NoException
                => \E c \in Range(NonNull(vals)) : WasUnloaded(c) /\ IsUnloaded(c)

C6_Witness ==
    /\ LoaderCall("load")
    /\ thrown = NoException
    /\ WasUnloaded(op.id)
    /\ LET vals == pre.m_values[op.id]
       IN  /\ Len(vals) = 3
           /\ vals[3] # NULL /\ WasUnloaded(vals[3]) /\ IsLoaded(vals[3])
           /\ \E i \in 1 .. 2 : vals[i] = NULL
           /\ \E i \in 1 .. 2 : vals[i] # NULL /\ WasLoaded(vals[i])

C8_OnlyTwoTransitions ==
    \A n \in alive :
        /\ m_handle[n] # pre.m_handle[n]
             => \/ /\ op.name = "load" /\ thrown = NoException
                   /\ WasUnloaded(n) /\ IsLoaded(n)
                \/ /\ op.name = "unload" /\ thrown = NoException
                   /\ WasLoaded(n) /\ IsUnloaded(n)
        /\ (op.name = "load" /\ thrown = NoException) => IsLoaded(n)
        /\ (op.name = "unload" /\ thrown = NoException) => IsUnloaded(n)

C8_Witness ==
    /\ op.name = "unload"
    /\ thrown \in DynamicLibraryErrors
    /\ WasLoaded(ROOT)
    /\ IsLoaded(ROOT)
    /\ IdsOf(log, "dlclose_err") = <<ROOT>>

\* C9: an object that has just been constructed is unloaded, and of
\* is_loaded() and is_unloaded() exactly one holds for every object: the
\* first when the handle is non-null, the second when it is null.
C9_FreshAndComplementary ==
    /\ op.name = "construct" => is_unloaded(ROOT, Here)
    /\ op.name = "attach_module"
         => is_unloaded(m_values[op.id][Len(m_values[op.id])], Here)
    /\ \A n \in alive :
         /\ is_loaded(n, Here) # is_unloaded(n, Here)
         /\ is_unloaded(n, Here) <=> m_handle[n] = nullptr

C9_Witness ==
    /\ op.name = "construct"
    /\ ROOT \in alive
    /\ kind[ROOT] = "dynamic_library"
    /\ is_unloaded(ROOT, Here)
    /\ ~is_loaded(ROOT, Here)

\* C10: load() on an object that is loaded throws a DynamicLibraryError,
\* calls the platform loader not at all, and leaves the object loaded with
\* the handle it had.
C10_LoadWhileLoaded ==
    (op.name = "load" /\ WasLoaded(op.id))
    => /\ thrown \in DynamicLibraryErrors
       /\ IdsOf(log, "dlopen") = <<>>
       /\ IdsOf(log, "dlopen_null") = <<>>
       /\ IsLoaded(op.id)
       /\ m_handle[op.id] = pre.m_handle[op.id]

C10_Witness ==
    /\ op.name = "load"
    /\ WasLoaded(ROOT)
    /\ thrown = "already loaded"
    /\ log = <<>>
    /\ IsLoaded(ROOT)

\* C11: load() on an object whose path does not end in the platform's
\* library extension throws a DynamicLibraryError, calls the platform loader
\* not at all, and leaves the object unloaded.
C11_BadExtension ==
    ( /\ op.call = "load"
      /\ extension(m_path[op.id]) # DYNAMIC_LIBRARY_EXTENSION )
    => /\ thrown \in DynamicLibraryErrors
       /\ IdsOf(log, "dlopen") = <<>>
       /\ IdsOf(log, "dlopen_null") = <<>>
       /\ WasUnloaded(op.id)
       /\ IsUnloaded(op.id)

C11_Witness ==
    /\ op.name = "load"
    /\ extension(m_path[ROOT]) = ".txt"
    /\ thrown = "invalid extension"
    /\ log = <<>>
    /\ IsUnloaded(ROOT)

\* a load() during which the platform and the library's code do not fail
BenignLoad(n) == { env \in LoadEnvs(n) : \A x \in Nodes : env.fault[x] = "ok" }

\* C12: when load() reaches the platform loader and the loader hands back a
\* null handle, load() throws a DynamicLibraryError and the object stays
\* unloaded; a load() that follows is not refused and, the platform
\* succeeding, loads the object.
C12_PlatformLoadFailure ==
    ( /\ op.call = "load"
      /\ IdsOf(log, "dlopen_null") # <<>> )
    => /\ thrown \in DynamicLibraryErrors
       /\ IdsOf(log, "dlopen_null") = <<op.id>>
       /\ WasUnloaded(op.id)
       /\ IsUnloaded(op.id)
       /\ \A env \in BenignLoad(op.id) :
            /\ load(op.id, Here, env).thrown = NoException
            /\ is_loaded(op.id, load(op.id, Here, env))

C12_Witness ==
    /\ op.name = "load"
    /\ IdsOf(log, "dlopen_null") = <<ROOT>>
    /\ thrown = "dlerror"
    /\ IsUnloaded(ROOT)
    /\ \E env \in BenignLoad(ROOT) : is_loaded(ROOT, load(ROOT, Here, env))

\* C13: unload() on an object that is unloaded returns without an error,
\* calls the platform unloader not at all and leaves the object unloaded;
\* so after an unload() that returned, another unload() changes nothing
\* and returns as well, whatever the platform would do.
C13_UnloadIdempotent ==
    /\ ( /\ op.call = "unload"
         /\ WasUnloaded(op.id) )
       => /\ thrown = NoException
          /\ IdsOf(log, "dlclose") = <<>>
          /\ IdsOf(log, "dlclose_err") = <<>>
          /\ IsUnloaded(op.id)
    /\ ( /\ op.name = "unload"
         /\ thrown = NoException )
       => \A env \in UnloadEnvs(op.id) :
            /\ unload(op.id, Here, env).thrown = NoException
            /\ unload(op.id, Here, env).m_handle = m_handle
            /\ unload(op.id, Here, env).log = <<>>

C13_Witness ==
    /\ op.name = "unload"
    /\ WasUnloaded(ROOT)
    /\ thrown = NoException
    /\ log = <<>>
    /\ IsUnloaded(ROOT)

\* C14: when unload() of a loaded object calls the platform unloader and the
\* unloader reports failure, the handle is as it was, the object is still
\* loaded and unload() throws a DynamicLibraryError; the handle is null
\* afterwards only when the platform unloader was called and reported
\* success.
C14_PlatformUnloadFailure ==
    ( /\ op.call = "unload"
      /\ WasLoaded(op.id) )
    => /\ IdsOf(log, "dlclose_err") # <<>>
            => /\ IdsOf(log, "dlclose_err") = <<op.id>>
               /\ m_handle[op.id] = pre.m_handle[op.id]
               /\ IsLoaded(op.id)
               /\ thrown \in DynamicLibraryErrors
       /\ IsUnloaded(op.id)
            => /\ IdsOf(log, "dlclose") = <<op.id>>
               /\ IdsOf(log, "dlclose_err") = <<>>
               /\ thrown = NoException

C14_Witness ==
    /\ op.name = "unload"
    /\ WasLoaded(ROOT)
    /\ IdsOf(log, "dlclose_err") = <<ROOT>>
    /\ m_handle[ROOT] = pre.m_handle[ROOT]
    /\ thrown = "dlerror"

C16_SymRequiresLoaded ==
    /\ ( /\ op.call = "sym"
         /\ WasUnloaded(op.id) )
       => /\ thrown = not_loaded(op.arg.name)
          /\ thrown \in DynamicLibraryErrors
          /\ log = <<>>
          /\ ret = nullptr
    /\ ( /\ op.call = "sym"
         /\ WasLoaded(op.id) )
       => /\ thrown = NoException
          /\ IdsOf(log, "dlsym") = <<op.id>>
          /\ ret \in { sym_unsafe(op.id, op.arg.name, Here, env).ret :
                         env \in CallEnvs(op.id) }
    /\ \A n \in alive, name \in Symbols : \A env \in CallEnvs(n) :
         is_loaded(n, Here)
         => /\ sym(n, name, Here, env) = sym_unsafe(n, name, Here, env)
            /\ env.hook[n] = "absent" => sym(n, name, Here, env).ret = nullptr

C16_Witness ==
    /\ op.name = "sym"
    /\ WasLoaded(ROOT)
    /\ thrown = NoException
    /\ IdsOf(log, "dlsym") = <<ROOT>>
    /\ ret = nullptr

\* the exceptions the handler was called with during the last call, in order
Handled(l) ==
    LET f == SelectSeq(l, LAMBDA x : x.ev = "handler")
    IN  [i \in 1 .. Len(f) |-> f[i].exception]

\* the last call looked the name up in a loaded library and did not get a
\* function to invoke
NotExported ==
    /\ WasLoaded(op.id)
    /\ IdsOf(log, "dlsym") = <<op.id>>
    /\ IdsOf(log, op.arg.name) = <<>>

\* C17: on a loaded library that does not export the name, call<Sig>(name)
\* throws the DynamicLibraryError that carries that name, while
\* try_call<Sig>(name, handler) calls the handler once, with that error,
\* throws nothing and returns the value-initialised result.
C17_MissingSymbol ==
    /\ ( /\ op.call = "call"
         /\ NotExported )
       => /\ thrown = no_function(op.arg.name)
          /\ thrown \in DynamicLibraryErrors
    /\ ( /\ op.call = "try_call"
         /\ NotExported )
       => /\ op.name = "try_call"
          /\ thrown = NoException
          /\ ret = DefaultValue
          /\ Handled(log) = IF op.arg.callback
                            THEN <<no_function(op.arg.name)>>
                            ELSE <<>>

C17_Witness ==
    /\ op.name = "try_call"
    /\ NotExported
    /\ op.arg.callback
    /\ op.arg.FunctionType = "int()"
    /\ op.arg.name = "on_module_info"
    /\ Handled(log) = <<no_function("on_module_info")>>
    /\ thrown = NoException
    /\ ret = DefaultValue

\* the last call found the function in a loaded library and invoked it
Invoked ==
    /\ WasLoaded(op.id)
    /\ IdsOf(log, op.arg.name) = <<op.id>>

\* C18: try_call comes back without an exception whatever was raised during
\* the call: a library that is not loaded, a name that is not exported, or
\* anything the invoked function throws goes to the handler, once, and with
\* an empty handler it is dropped.
C18_RoutesAnyException ==
    op.call = "try_call"
    => /\ op.name = "try_call"
       /\ thrown = NoException
       /\ ~op.arg.callback => Handled(log) = <<>>
       /\ (op.arg.callback /\ WasUnloaded(op.id))
            => Handled(log) = <<not_loaded(op.arg.name)>>
       /\ (op.arg.callback /\ NotExported)
            => Handled(log) = <<no_function(op.arg.name)>>
       /\ (op.arg.callback /\ Invoked)
            => Handled(log) \in { <<>>, <<HookException>>, <<ForeignException>> }

\* what the last call did, without the objects
Names(l) == [i \in 1 .. Len(l) |-> l[i].ev]

\* the objects as they were when the last call began, as a call's input
Before == [alive |-> pre.alive, m_handle |-> pre.m_handle,
           m_values |-> pre.m_values, thrown |-> NoException, log |-> <<>>]

\* C19: load() of a dynamic_module loads the library first and looks up and
\* invokes on_module_load only after the platform loader has succeeded;
\* when the library load fails, the module's load() ends exactly as
\* dynamic_library::load does there (same error, same state) and the hook
\* is neither looked up nor invoked.
C19_LoadThenHook ==
    ( /\ op.call = "load"
      /\ kind[op.id] = "dynamic_module" )
    => \/ /\ Names(log) \in { <<"dlopen", "dlsym">>,
                               <<"dlopen", "dlsym", "on_module_load">> }
          /\ thrown \in {NoException, Terminated}
       \/ /\ Names(log) \in { <<>>, <<"dlopen_null">> }
          /\ thrown \in DynamicLibraryErrors
          /\ \E env \in LoadEnvs(op.id) :
               LET S == dynamic_library_load(op.id, Before, env)
               IN  /\ S.thrown = thrown
                   /\ S.log = log
                   /\ S.m_handle = m_handle

C19_Witness ==
    /\ op.name = "load"
    /\ kind[ROOT] = "dynamic_module"
    /\ Names(log) = <<"dlopen", "dlsym", "on_module_load">>
    /\ thrown = NoException
    /\ IsLoaded(ROOT)

C21_HookCannotAbort ==
    /\ ( /\ op.call = "load"
         /\ kind[op.id] = "dynamic_module" )
       => /\ op.name = "load"
          /\ \E env \in LoadEnvs(op.id) :
               LET S == dynamic_library_load(op.id, Before, env)
               IN  /\ S.thrown = thrown
                   /\ S.m_handle = m_handle
                   /\ S.alive = alive
    /\ ( /\ op.call = "unload"
         /\ kind[op.id] = "dynamic_module" )
       => /\ op.name = "unload"
          /\ \E env \in UnloadEnvs(op.id) :
               LET S == dynamic_library_unload(op.id, Before, env)
               IN  /\ S.thrown = thrown
                   /\ S.m_handle = m_handle
                   /\ S.alive = alive

\* C22: info() on a module that is not loaded, or whose library does not
\* export on_module_info, throws the DynamicLibraryError of that case and
\* the error reaches the caller; info() returns the function's result only
\* when the function was found and invoked; and info() changes nothing of
\* the module.
C22_InfoRequired ==
    op.call = "info"
    => /\ op.name = "info"
       /\ m_handle = pre.m_handle
       /\ alive = pre.alive
       /\ m_values = pre.m_values
       /\ WasUnloaded(op.id)
            => /\ thrown = not_loaded("on_module_info")
               /\ thrown \in DynamicLibraryErrors
               /\ log = <<>>
       /\ (WasLoaded(op.id) /\ Names(log) = <<"dlsym">>)
            => /\ thrown = no_function("on_module_info")
               /\ thrown \in DynamicLibraryErrors
       /\ thrown = NoException
            => /\ WasLoaded(op.id)
               /\ Names(log) = <<"dlsym", "on_module_info">>
               /\ ret = FunctionResult

C22_Witness ==
    /\ op.name = "info"
    /\ kind[ROOT] = "dynamic_module"
    /\ WasLoaded(ROOT)
    /\ Names(log) = <<"dlsym">>
    /\ thrown = no_function("on_module_info")
    /\ IsLoaded(ROOT)

\* C23: attach_module that returns has appended one element: the size has
\* grown by one, the slots there were are as they were, the returned
\* reference is the new last element, which is a new object; nothing was
\* loaded: the new object is unloaded, and the loader, its children and
\* every other object have the handle they had.
C23_AttachAppends ==
    ( /\ op.call = "attach_module"
      /\ thrown = NoException )
    => LET old == pre.m_values[op.id]
           new == m_values[op.id]
       IN  /\ Len(new) = Len(old) + 1
           /\ SubSeq(new, 1, Len(old)) = old
           /\ ret = new[Len(new)]
           /\ ret \notin pre.alive
           /\ alive = pre.alive \cup {ret}
           /\ IsUnloaded(ret)
           /\ log = <<>>
           /\ \A n \in pre.alive :
                /\ m_handle[n] = pre.m_handle[n]
                /\ n # op.id => m_values[n] = pre.m_values[n]

C23_Witness ==
    /\ op.name = "attach_module"
    /\ thrown = NoException
    /\ Len(pre.m_values[ROOT]) = 2
    /\ Len(m_values[ROOT]) = 3
    /\ IsLoaded(ROOT)
    /\ \E i \in 1 .. 2 : m_values[ROOT][i] # NULL /\ IsLoaded(m_values[ROOT][i])
    /\ ret = m_values[ROOT][3]
    /\ IsUnloaded(ret)

\* C24: when the constructor of the new element throws during
\* attach_module, the exception reaches the caller and every collection is
\* as it was: same size, same slots; no object has appeared or changed.
C24_AttachStrongGuarantee ==
    ( /\ op.call = "attach_module"
      /\ thrown # NoException )
    => /\ thrown = ConstructorException
       /\ m_values = pre.m_values
       /\ \A n \in pre.alive : Len(m_values[n]) = Len(pre.m_values[n])
       /\ alive = pre.alive
       /\ m_handle = pre.m_handle

C24_Witness ==
    /\ op.name = "attach_module"
    /\ thrown = ConstructorException
    /\ Len(pre.m_values[ROOT]) = 2
    /\ m_values = pre.m_values
    /\ Cardinality(alive) = 3

\* C25: at(i) on a collection built by appends returns, with the slot at i,
\* exactly when 0 <= i < size(); otherwise it throws the range_error that
\* carries i; in both cases the collection is as it was.
C25_AtBoundsChecked ==
    op.call = "at"
    => LET i == op.arg.index
           vals == pre.m_values[op.id]
       IN  /\ thrown = NoException <=> (0 <= i /\ i < Len(vals))
           /\ thrown = NoException => ret = vals[i + 1]
           /\ thrown # NoException => thrown = range_error(i)
           /\ m_values = pre.m_values
           /\ alive = pre.alive
           /\ m_handle = pre.m_handle

C25_Witness ==
    /\ op.name = "at"
    /\ Len(m_values[ROOT]) = 2
    /\ op.arg.index = 2
    /\ thrown = range_error(2)
    /\ m_values = pre.m_values

\* C26: get(i) tells a null slot from a missing one: on an index past the
\* end it throws the range_error carrying i, on a slot that is there and
\* null the null_pointer_exception carrying i, and on a slot that holds an
\* element it returns that element; the two errors differ, and the
\* collection is as it was.
C26_GetNullSlot ==
    op.call = "get"
    => LET i == op.arg.index
           vals == pre.m_values[op.id]
       IN  /\ i >= Len(vals) => thrown = range_error(i)
           /\ (i < Len(vals) /\ vals[i + 1] = NULL)
                => thrown = null_pointer_exception(i)
           /\ (i < Len(vals) /\ vals[i + 1] # NULL)
                => /\ thrown = NoException
                   /\ ret = vals[i + 1]
                   /\ ret \in alive
           /\ range_error(i) # null_pointer_exception(i)
           /\ RangeErrors \cap NullPointerExceptions = {}
           /\ m_values = pre.m_values

C26_Witness ==
    /\ op.name = "get"
    /\ Len(m_values[ROOT]) = 3
    /\ op.arg.index = 1
    /\ m_values[ROOT][2] = NULL
    /\ thrown = null_pointer_exception(1)

\* C27: ref() throws the anchor_exception exactly when the anchor is empty
\* and otherwise returns the object it refers to; after reset() and after
\* default construction ref() throws, after emplace(x) it returns x; emplace
\* and reset throw nothing.
C27_RefFailsWhenEmpty ==
    LET a == op.id
    IN  /\ op.call = "ref"
            => /\ thrown = anchor_exception <=> pre.m_ptr[a] = nullptr
               /\ thrown = NoException <=> pre.m_ptr[a] # nullptr
               /\ thrown = NoException => ret = pre.m_ptr[a]
               /\ m_ptr = pre.m_ptr
        /\ op.call \in {"reset", "anchor()"}
            => /\ thrown = NoException
               /\ ref(a, m_ptr).thrown = anchor_exception
        /\ op.call = "emplace"
            => /\ thrown = NoException
               /\ ref(a, m_ptr) = [thrown |-> NoException, ret |-> op.arg.other]

\* a bound anchor was reset and then dereferenced
C27_Witness ==
    /\ op.name = "ref"
    /\ thrown = anchor_exception
    /\ m_ptr[op.id] = nullptr
    /\ \E b \in Anchors \ {op.id} : m_ptr[b] # nullptr

\* C28: a copy refers to what its source refers to and the source keeps
\* its referent; a move, by construction or by assignment, gives the target
\* the source's referent and leaves the source empty, except that moving an
\* anchor into itself changes nothing; no third anchor is touched; two
\* anchors compare equal exactly when they hold the same address.
C28_CopyAliasesMoveEmpties ==
    LET a == op.id
        other == op.arg.other
        Rest == Anchors \ {a, other}
    IN  /\ op.call = "anchor(anchor &)"
            => /\ m_ptr[a] = pre.m_ptr[other]
               /\ m_ptr[other] = pre.m_ptr[other]
               /\ \A b \in Rest : m_ptr[b] = pre.m_ptr[b]
        /\ (op.call \in {"anchor(anchor &&)", "operator=(anchor &&)"}
              /\ a # other)
            => /\ m_ptr[a] = pre.m_ptr[other]
               /\ m_ptr[other] = nullptr
               /\ \A b \in Rest : m_ptr[b] = pre.m_ptr[b]
        /\ (op.call = "operator=(anchor &&)" /\ a = other)
            => m_ptr = pre.m_ptr
        /\ op.call = "operator=="
            => /\ ret = 1 <=> pre.m_ptr[a] = pre.m_ptr[other]
               /\ ret \in {0, 1}
               /\ m_ptr = pre.m_ptr
        /\ op.call \in {"anchor(anchor &)", "anchor(anchor &&)",
                         "operator=(anchor &&)", "operator=="}
            => thrown = NoException

\* a bound anchor was moved from by construction
C28_Witness ==
    /\ op.name = "anchor(anchor &&)"
    /\ pre.m_ptr[op.arg.other] # nullptr
    /\ m_ptr[op.id] = pre.m_ptr[op.arg.other]
    /\ m_ptr[op.arg.other] = nullptr

\* the slots on which the callback of the last call ran, in order
Visited == [k \in 1 .. Len(log) |-> log[k].id]

\* C29: filter::iterate runs the callback on slots in the order of the
\* range and on no slot twice, only on slots the filter accepts (on all of
\* them with default_filter); it returns the first slot whose callback
\* result is truthy and has run the callback on no slot after it; when no
\* result is truthy, or the callback is void, it returns nullptr after
\* running the callback on every slot the filter accepts.
C29_IterateEarlyExit ==
    op.call = "iterate"
    => LET range == Slots(op.arg.range, op.id, Before)
           env == op.arg.env
           Pos(slot) == CHOOSE k \in DOMAIN range : range[k] = slot
           Accepts(slot) ==
               op.arg.filter = "default_filter" \/ env.passes[slot]
           Truthy(slot) == op.arg.callback = "search" /\ env.truthy[slot]
           Accepted == { k \in DOMAIN range : Accepts(range[k]) }
           Hits == { k \in Accepted : Truthy(range[k]) }
       IN  /\ \A k \in DOMAIN log : log[k].ev = "callback"
           /\ \A j, k \in DOMAIN Visited :
                j < k => Pos(Visited[j]) < Pos(Visited[k])
           /\ \A k \in DOMAIN Visited : Accepts(Visited[k])
           /\ Hits # {}
                => /\ ret \in { range[k] : k \in DOMAIN range }
                   /\ \A k \in Hits : Pos(ret) <= k
                   /\ Pos(ret) \in Hits
                   /\ { Pos(Visited[k]) : k \in DOMAIN Visited }
                        = { k \in Accepted : k <= Pos(ret) }
           /\ Hits = {}
                => /\ ret = 0
                   /\ { Pos(Visited[k]) : k \in DOMAIN Visited } = Accepted
           /\ thrown = NoException
           /\ m_values = pre.m_values

\* a filtered search that skipped a slot, passed one whose result was not
\* truthy, stopped at the next and left a truthy one behind it unvisited
C29_Witness ==
    /\ op.name = "iterate"
    /\ op.arg.callback = "search"
    /\ op.arg.filter = "predicate"
    /\ op.arg.range = "rbegin"
    /\ Len(m_values[ROOT]) = 3
    /\ ~op.arg.env.passes[3]
    /\ op.arg.env.truthy[3]
    /\ Visited = <<2, 1>>
    /\ ret = 1
    /\ op.arg.env.truthy[1]

C31_LoadedChildHasLoadedParent ==
    \A p \in alive : \A i \in DOMAIN m_values[p] :
        (m_values[p][i] # NULL /\ IsLoaded(m_values[p][i])) => IsLoaded(p)

\* the unload of a grandchild failed under the root's unload(): the
\* grandchild, its parent and the root are loaded
C31_Witness ==
    /\ op.name = "unload"
    /\ op.id = ROOT
    /\ thrown \in DynamicLibraryErrors
    /\ \E c \in Range(NonNull(m_values[ROOT])) :
         /\ kind[c] = "dynamic_loader"
         /\ IsLoaded(c)
         /\ \E g \in Range(NonNull(m_values[c])) :
              /\ IsLoaded(g)
              /\ [ev |-> "dlclose_err", id |-> g, exception |-> NoException]
                   \in Range(log)

\* C32: load() on a loader whose own library is loaded throws a
\* dynamic_library_exception before anything is done: no library is opened,
\* no hook is looked up, no state changes, whatever children are unloaded;
\* so a load() of a loader that opened a child's library began with the
\* loader unloaded.
C32_LoadOnLoadedLoader ==
    /\ (LoaderCall("load") /\ WasLoaded(op.id))
         => /\ thrown \in DynamicLibraryErrors
            /\ log = <<>>
            /\ m_handle = pre.m_handle
            /\ m_values = pre.m_values
    /\ (LoaderCall("load")
          /\ \E c \in Range(ChildrenBefore(op.id)) :
               c \in Range(IdsOf(log, "dlopen")))
         => WasUnloaded(op.id)

\* the loader was loaded and two of its three children were not
C32_Witness ==
    /\ LoaderCall("load")
    /\ WasLoaded(op.id)
    /\ thrown = "already loaded"
    /\ Len(ChildrenBefore(op.id)) = 3
    /\ IsLoaded(ChildrenBefore(op.id)[1])
    /\ IsUnloaded(ChildrenBefore(op.id)[2])
    /\ IsUnloaded(ChildrenBefore(op.id)[3])

\* C33: unload() of a loaded loader some of whose children are already
\* unloaded, as a failed unload() leaves them, does nothing to those
\* children, closes the loaded ones in reverse insertion order and then
\* the loader's own library and, when nothing fails, leaves every child
\* and the loader unloaded.
C33_UnloadRetry ==
    ( /\ LoaderCall("unload")
      /\ WasLoaded(op.id)
      /\ thrown = NoException )
    => LET ch == ChildrenBefore(op.id)
           loaded == SelectSeq(ch, WasLoaded)
       IN  /\ IdsOf(log, "dlclose") = Reverse(loaded) \o <<op.id>>
           /\ IdsOf(log, "dlclose_err") = <<>>
           /\ \A c \in Range(ch) : WasUnloaded(c) => c \notin Touched(log)
           /\ \A c \in Range(ch) \cup {op.id} : IsUnloaded(c)

\* the state a failed unload() at the second of three children leaves, and
\* an unload() that went through from there
C33_Witness ==
    /\ LoaderCall("unload")
    /\ thrown = NoException
    /\ WasLoaded(op.id)
    /\ Len(ChildrenBefore(op.id)) = 3
    /\ WasLoaded(ChildrenBefore(op.id)[1])
    /\ WasLoaded(ChildrenBefore(op.id)[2])
    /\ WasUnloaded(ChildrenBefore(op.id)[3])
    /\ IdsOf(log, "dlclose")
         = <<ChildrenBefore(op.id)[2], ChildrenBefore(op.id)[1], op.id>>

\* C34: after a load() of a loader that threw nothing the loader and every
\* child in a non-null slot are loaded, and after an unload() that threw
\* nothing they are all unloaded, whichever of the children were loaded
\* when the call began.
C34_SuccessMeansAll ==
    /\ (LoaderCall("load") /\ thrown = NoException)
         => \A c \in {op.id} \cup Range(NonNull(m_values[op.id])) : IsLoaded(c)
    /\ (LoaderCall("unload") /\ thrown = NoException)
         => \A c \in {op.id} \cup Range(NonNull(m_values[op.id])) : IsUnloaded(c)

\* a load() that went through on a loader with a loaded child, an unloaded
\* child and a null slot
C34_Witness ==
    /\ LoaderCall("load")
    /\ thrown = NoException
    /\ Len(pre.m_values[op.id]) = 3
    /\ \E i \in 1 .. 3 : pre.m_values[op.id][i] = NULL
    /\ \E c \in Range(ChildrenBefore(op.id)) : WasLoaded(c)
    /\ \E c \in Range(ChildrenBefore(op.id)) : WasUnloaded(c)
    /\ \A c \in Range(ChildrenBefore(op.id)) : IsLoaded(c)

\* the objects on which the platform unloader was called, in order
Closed(l) ==
    LET f == SelectSeq(l, LAMBDA x : x.ev \in {"dlclose", "dlclose_err"})
    IN  [i \in 1 .. Len(f) |-> f[i].id]

\* the place in the log at which event e happened on object n
EventAt(l, e, n) == CHOOSE i \in DOMAIN l : l[i].ev = e /\ l[i].id = n

\* C35: the destructor of a loader that is loaded calls the platform
\* unloader on the loaded children in reverse insertion order and on the
\* loader's own library last, after the destruction of every child has
\* begun and its library has been closed; no hook is looked up, so this is
\* not unload().
C35_DestroyLoadedLoader ==
    ( /\ op.call = "destroy"
      /\ kind[op.id] = "dynamic_loader"
      /\ WasLoaded(op.id) )
    => LET ch == ChildrenBefore(op.id)
       IN  /\ Closed(log) = Reverse(SelectSeq(ch, WasLoaded)) \o <<op.id>>
           /\ IdsOf(log, "destroy") = <<op.id>> \o Reverse(ch)
           /\ \A c \in Range(ch) :
                \A i \in DOMAIN log :
                    (log[i].id = op.id /\ log[i].ev \in {"dlclose", "dlclose_err"})
                    => EventAt(log, "destroy", c) < i
           /\ \A i \in DOMAIN log :
                log[i].ev \in {"destroy", "dlclose", "dlclose_err"}
           /\ alive = {}

\* a loaded loader with three loaded children was destroyed
C35_Witness ==
    /\ op.name = "destroy"
    /\ WasLoaded(ROOT)
    /\ Len(ChildrenBefore(ROOT)) = 3
    /\ \A c \in Range(ChildrenBefore(ROOT)) : WasLoaded(c)
    /\ Closed(log) = Reverse(ChildrenBefore(ROOT)) \o <<ROOT>>

\* C36: the destructor of a loaded dynamic_module calls the platform
\* unloader and neither looks up nor invokes on_module_unload; that hook
\* is invoked by the object only in unload() (and in a call or try_call the
\* host program makes with its name).
C36_DestructorSkipsHook ==
    /\ ( /\ op.call = "destroy"
         /\ kind[op.id] = "dynamic_module"
         /\ WasLoaded(op.id) )
       => /\ Names(log) \in { <<"destroy", "dlclose">>,
                               <<"destroy", "dlclose_err">> }
          /\ thrown = NoException
          /\ alive = {}
    /\ IdsOf(log, "on_module_unload") # <<>>
       => \/ op.call = "unload"
          \/ /\ op.call \in {"call", "try_call"}
             /\ op.arg.name = "on_module_unload"

\* a loaded module was destroyed and its library closed
C36_Witness ==
    /\ op.name = "destroy"
    /\ kind[ROOT] = "dynamic_module"
    /\ WasLoaded(ROOT)
    /\ Names(log) = <<"destroy", "dlclose">>

\* C37: every unload() of a dynamic_module made while the module is loaded
\* invokes on_module_unload once, before the platform unloader is asked,
\* also when the unloader then fails and the module stays loaded; the
\* hook's count goes up by one with each such call, whatever on_module_load
\* has been counted.
C37_UnloadHookEveryCall ==
    ( /\ op.call = "unload"
      /\ kind[op.id] = "dynamic_module"
      /\ WasLoaded(op.id) )
    => /\ IdsOf(log, "on_module_unload") = <<op.id>>
       /\ runs["on_module_unload"] = pre.runs["on_module_unload"] + 1
       /\ runs["on_module_load"] = pre.runs["on_module_load"]
       /\ op.name = "unload"
            => /\ Len(Closed(log)) = 1
               /\ EventAt(log, "on_module_unload", op.id) < Len(log)
               /\ IdsOf(log, "dlclose_err") # <<>> => IsLoaded(op.id)

\* the module was loaded once, its unload() failed at the platform
\* unloader and was tried again: on_module_unload has run twice
C37_Witness ==
    /\ op.name = "unload"
    /\ runs["on_module_load"] = 1
    /\ runs["on_module_unload"] = 2
    /\ pre.runs["on_module_unload"] = 1
    /\ WasLoaded(ROOT)

\* C38: a lifecycle hook is invoked only on a library that is loaded at
\* that moment: unload() of a module that is unloaded does nothing, throws
\* nothing and leaves it unloaded, and a load() whose library load failed
\* has neither looked up nor invoked on_module_load.
C38_NoHookWhileUnloaded ==
    /\ \A i \in DOMAIN log :
         log[i].ev \in Hooks
         => \/ /\ WasLoaded(log[i].id)
               /\ \A j \in 1 .. (i - 1) :
                    ~(log[j].ev = "dlclose" /\ log[j].id = log[i].id)
            \/ \E j \in 1 .. (i - 1) :
                 log[j].ev = "dlopen" /\ log[j].id = log[i].id
    /\ ( /\ op.call = "unload"
         /\ kind[op.id] = "dynamic_module"
         /\ WasUnloaded(op.id) )
       => /\ log = <<>>
          /\ thrown = NoException
          /\ IsUnloaded(op.id)
    /\ ( /\ op.call = "load"
         /\ kind[op.id] = "dynamic_module"
         /\ WasUnloaded(op.id)
         /\ IsUnloaded(op.id)
         /\ op.name = "load" )
       => /\ thrown \in DynamicLibraryErrors
          /\ IdsOf(log, "dlsym") = <<>>
          /\ IdsOf(log, "on_module_load") = <<>>

\* unload() was called on a module that was not loaded
C38_Witness ==
    /\ op.name = "unload"
    /\ kind[ROOT] = "dynamic_module"
    /\ WasUnloaded(ROOT)
    /\ log = <<>>
    /\ thrown = NoException

====
